---- MODULE Spec2Model ----
(***************************************************************************)
(* Model of parity-tokio-ipc: the POSIX backend (src/src/unix.rs, a Unix   *)
(* domain socket bound to a filesystem path) and the Windows backend       *)
(* (src/src/win.rs, single-use named-pipe instances replaced by an unfold  *)
(* loop, and a client connector that retries on ERROR_PIPE_BUSY).          *)
(* The backend is selected at build time: `platform` is chosen in Init and *)
(* never changes.                                                          *)
(***************************************************************************)
EXTENDS Integers, Sequences, FiniteSets, TLC

\* ------------------------------------------------------------------ bounds
MaxEndpoints == 2      \* Endpoint values constructed one after another (POSIX)
MaxConns     == 3      \* client sockets created over a run (POSIX)
MaxBacklog   == 2      \* pending connections a listener queues (POSIX)
MaxInst      == 4      \* pipe instances created over a run (Windows)
MaxConnects  == 3      \* connect() calls of the sequential client (Windows)

\* ------------------------------------------------------- program constants
MODE_OWNER_ONLY == \o600     \* SecurityAttributes::empty
MODE_EVERYONE   == \o666     \* SecurityAttributes::allow_everyone_connect
PERM_MASK       == \o10000   \* chmod(2) keeps the low 12 bits of its argument

PIPE_AVAILABILITY_TIMEOUT == 5000   \* milliseconds
SLEEP_MILLIS == 50                  \* tokio::time::sleep between attempts

NoMode == -1                 \* Option<u16>::None

\* values a caller passes to set_mode; two of them carry bits above 07777
SetModeValues == {0, \o600, \o644, \o660, \o10644, \o100600}
\* mode of the socket file right after bind: 0777 & ~umask
BindModes == {\o755, \o777, \o700}
Users == {"owner", "other"}

\* ============================================================== POSIX ====
\* ----------------------------------------- SecurityAttributes (unix.rs)
\* A descriptor is [mode, op, arg]: `mode` is the field of the struct;
\* `op`/`arg` record the builder call that produced the value.
SA_empty == [mode |-> MODE_OWNER_ONLY, op |-> "empty", arg |-> 0]

SA_allow_everyone_connect(sa) ==
    [mode |-> MODE_EVERYONE, op |-> "allow_everyone_connect", arg |-> 0]

\* faulty variant: set_mode leaves the mode as it was
SA_set_mode_Ignored(sa, v) == [sa EXCEPT !.op = "set_mode", !.arg = v]

SA_set_mode(sa, v) == [mode |-> v, op |-> "set_mode", arg |-> v]

SA_allow_everyone_create ==
    [mode |-> NoMode, op |-> "allow_everyone_create", arg |-> 0]

\* descriptors a caller can build: a constructor followed by at most one
\* builder call
Constructors == {SA_empty, SA_allow_everyone_create}
Descriptors ==
    Constructors
    \cup {SA_allow_everyone_connect(sa) : sa \in Constructors}
    \cup {SA_set_mode(sa, v) : sa \in Constructors, v \in SetModeValues}

\* chmod(2): the permission bits of the file become the low 12 bits of the
\* argument (mode.into() widens the u16 without changing it)
ChmodBits(mode) == mode % PERM_MASK

NoFile == [exists |-> FALSE, mode |-> 0, gen |-> 0]

\* connect(2) on a socket file needs write permission on it
WritableBy(mode, who) ==
    IF who = "owner" THEN (mode \div \o200) % 2 = 1
                     ELSE (mode \div \o2) % 2 = 1

VARIABLES
    platform,     \* "unix" | "windows", fixed at build time
    u_pc,         \* "new" | "bound" | "listening" | "failed" | "dropped"
    u_gen,        \* number of the Endpoint value in use
    u_sa,         \* Endpoint.security_attributes
    u_file,       \* the socket path in the filesystem
    u_path,       \* Incoming.path is Some
    u_backlog,    \* connections queued on the listener, not yet accepted
    u_yielded,    \* stream sockets yielded by this Incoming, in order
    u_open,       \* yielded sockets whose Connection is still alive
    u_next,       \* next fresh socket identity
    u_last,       \* outcome of the last step of incoming()/poll_next/drop
    u_rm,         \* remove_file calls made by this Incoming
    uc,           \* the last Endpoint::connect call of a client
    u_cmode,      \* history: the connections made while the socket file did
                  \* not carry the mode of the Endpoint's descriptor
    u_stale,      \* history: the file at the path is the one left by an
                  \* incoming() that failed at apply_permissions
    w_pc,         \* "new" | "connect" | "create" | "wrap" | "errored" |
                  \* "terminated" | "failed" | "dropped"
    w_created,    \* Endpoint.created_listener
    w_inst,       \* pipe instances of the name, by creation number
    w_n,          \* pipe instances created so far
    w_listener,   \* instance held by the stream state (0: none)
    w_new,        \* new_listener of the running production step (0: none)
    w_yielded,    \* instances yielded as Connections, in order
    w_open,       \* yielded instances whose Connection is still alive
    w_last,       \* last item poll_next returned: "none" | "conn" |
                  \* "err_connect" | "err_create" | "end"
    c_pc,         \* client connect(): "idle" | "open" | "sleep"
    c_calls,      \* connect() calls issued so far
    c_elapsed,    \* attempt_start.elapsed() in milliseconds
    c_res,        \* result of the last finished connect()
    c_busy,       \* the current/last connect() saw ERROR_PIPE_BUSY
    c_freed,      \* history: during the current/last connect(), after a busy
                  \* attempt, an instance was free with the budget not used up
    w_flag,       \* first_pipe_instance flag of the latest creation call:
                  \* "first" (set), "later" (clear), "none" before any call
    a_pc,         \* position in the SecurityAttributes constructor / lifetime
    a_kind,       \* constructor called: "empty", "allow_everyone_connect", ...
    a_att,        \* the InnerAttributes value being built or held
    a_obj,        \* native objects: "none" (never allocated), "alive", "freed"
    a_order,      \* the release calls made so far, in order
    a_sidref,     \* a live EXPLICIT_ACCESS_W still holds the SID pointer
    a_res,        \* how the constructor ended
    a_step,       \* the OS call that failed ("none" if none did)
    a_last        \* last operation on the value

uvars == <<u_pc, u_gen, u_sa, u_file, u_path, u_backlog, u_yielded, u_open,
           u_next, u_last, u_rm, uc, u_cmode, u_stale>>

wvars == <<w_pc, w_created, w_inst, w_n, w_listener, w_new, w_yielded, w_open,
           w_last, c_pc, c_calls, c_elapsed, c_res, c_busy, c_freed, w_flag>>

\* the build selects one backend; a step of one leaves the other untouched
avars == <<a_pc, a_kind, a_att, a_obj, a_order, a_sidref, a_res, a_step,
           a_last>>

UnixStep == platform = "unix" /\ UNCHANGED <<platform, wvars, avars>>

WinStep == platform = "windows" /\ UNCHANGED <<platform, uvars, avars>>

AttrStep == platform = "windows_sa" /\ UNCHANGED <<platform, uvars, wvars>>

NoCall == [attempts |-> 0, sleeps |-> 0, res |-> "none", sawFile |-> FALSE]

UInit ==
    /\ u_pc = "new"
    /\ u_gen = 1
    /\ u_sa = SA_empty
    /\ u_file = NoFile
    /\ u_path = FALSE
    /\ u_backlog = <<>>
    /\ u_yielded = <<>>
    /\ u_open = {}
    /\ u_next = 1
    /\ u_last = "none"
    /\ u_rm = 0
    /\ uc = NoCall
    /\ u_cmode = {}
    /\ u_stale = FALSE

\* the listener of the current Endpoint is open and is the one the file names
ListenerLive ==
    /\ u_pc \in {"bound", "listening"}
    /\ u_file.exists
    /\ u_file.gen = u_gen

\* Endpoint::set_security_attributes
U_SetSecurityAttributes(sa) ==
    /\ UnixStep
    /\ u_pc = "new"
    /\ u_sa' = sa
    /\ UNCHANGED <<u_pc, u_gen, u_file, u_path, u_backlog, u_yielded, u_open,
                   u_next, u_last, u_rm, uc>>
    /\ UNCHANGED u_cmode
    /\ UNCHANGED u_stale

\* Endpoint::incoming, first statement: self.inner()? = UnixListener::bind.
\* bind(2) fails with EADDRINUSE when the path exists, otherwise creates the
\* socket file with mode 0777 & ~umask.
U_Bind(bm) ==
    /\ UnixStep
    /\ u_pc = "new"
    /\ IF u_file.exists
         THEN /\ u_pc' = "failed"
              /\ u_last' = "EADDRINUSE"
              /\ UNCHANGED u_file
         ELSE /\ u_pc' = "bound"
              /\ u_last' = "bind_ok"
              /\ u_file' = [exists |-> TRUE, mode |-> bm, gen |-> u_gen]
    /\ UNCHANGED <<u_gen, u_sa, u_path, u_backlog, u_yielded, u_open, u_next,
                   u_rm, uc>>
    /\ UNCHANGED u_cmode
    /\ UNCHANGED u_stale

\* SecurityAttributes::apply_permissions: the file after the call, or NoFile
\* paired with an error.  `ok` is whether chmod(2) succeeds when the file is
\* there (it cannot when the file is gone).
ApplyResult(sa, file, ok) ==
    IF sa.mode = NoMode THEN [err |-> FALSE, file |-> file]
    ELSE IF file.exists /\ ok
         THEN [err |-> FALSE, file |-> [file EXCEPT !.mode = ChmodBits(sa.mode)]]
         ELSE [err |-> TRUE, file |-> file]

\* Endpoint::incoming, second statement and return.  On error the listener
\* is dropped (closed); nothing removes the file.
\* faulty variant: the result of apply_permissions is ignored
U_ApplyPermissions_IgnoreErr(ok) ==
    /\ UnixStep
    /\ u_pc = "bound"
    /\ LET r == ApplyResult(u_sa, u_file, ok) IN
         /\ u_file' = r.file
         /\ u_pc' = "listening"
         /\ u_last' = "incoming_ok"
         /\ u_path' = TRUE
         /\ UNCHANGED u_backlog
    /\ UNCHANGED <<u_gen, u_sa, u_yielded, u_open, u_next, u_rm, uc>>
    /\ UNCHANGED u_cmode
    /\ UNCHANGED u_stale

\* faulty variant: a failed apply_permissions removes the file of the bind
U_ApplyPermissions_Cleanup(ok) ==
    /\ UnixStep
    /\ u_pc = "bound"
    /\ LET r == ApplyResult(u_sa, u_file, ok) IN
         /\ IF r.err
              THEN /\ u_pc' = "failed"
                   /\ u_last' = "chmod_err"
                   /\ u_backlog' = <<>>
                   /\ u_file' = NoFile
                   /\ u_stale' = FALSE
                   /\ UNCHANGED u_path
              ELSE /\ u_pc' = "listening"
                   /\ u_last' = "incoming_ok"
                   /\ u_path' = TRUE
                   /\ u_file' = r.file
                   /\ UNCHANGED <<u_backlog, u_stale>>
    /\ UNCHANGED <<u_gen, u_sa, u_yielded, u_open, u_next, u_rm, uc>>
    /\ UNCHANGED u_cmode

U_ApplyPermissions(ok) ==
    /\ UnixStep
    /\ u_pc = "bound"
    /\ LET r == ApplyResult(u_sa, u_file, ok) IN
         /\ u_file' = r.file
         /\ IF r.err
              THEN /\ u_pc' = "failed"
                   /\ u_last' = "chmod_err"
                   /\ u_backlog' = <<>>
                   /\ u_stale' = r.file.exists
                   /\ UNCHANGED u_path
              ELSE /\ u_pc' = "listening"
                   /\ u_last' = "incoming_ok"
                   /\ u_path' = TRUE
                   /\ UNCHANGED <<u_backlog, u_stale>>
    /\ UNCHANGED <<u_gen, u_sa, u_yielded, u_open, u_next, u_rm, uc>>
    /\ UNCHANGED u_cmode

\* Endpoint::from_std_listener: adopts a listener bound by the caller; the
\* Incoming it returns has no path.
U_FromStdListener(bm) ==
    /\ UnixStep
    /\ u_pc = "new"
    /\ ~u_file.exists
    /\ u_file' = [exists |-> TRUE, mode |-> bm, gen |-> u_gen]
    /\ u_pc' = "listening"
    /\ u_path' = FALSE
    /\ u_last' = "incoming_ok"
    /\ UNCHANGED <<u_gen, u_sa, u_backlog, u_yielded, u_open, u_next, u_rm, uc>>
    /\ UNCHANGED u_cmode
    /\ UNCHANGED u_stale

\* Stream for Incoming::poll_next: poll_accept on the listener.  With a
\* queued connection accept(2) either returns a new socket or fails (EMFILE
\* and the like; the connection stays queued); with none the poll is Pending
\* and changes nothing.
\* faulty variant: the accepted connection stays queued
AfterAccept_Keep(backlog) == backlog

AfterAccept(backlog) == Tail(backlog)

\* faulty variant: an accept error removes the bound path
U_PollNext_Cleanup(ok) ==
    /\ UnixStep
    /\ u_pc = "listening"
    /\ u_backlog # <<>>
    /\ IF ok
         THEN /\ u_yielded' = Append(u_yielded, Head(u_backlog))
              /\ u_open' = u_open \cup {Head(u_backlog)}
              /\ u_backlog' = AfterAccept(u_backlog)
              /\ u_last' = "conn"
              /\ UNCHANGED <<u_file, u_rm>>
         ELSE /\ u_last' = "accept_err"
              /\ u_file' = IF u_path THEN NoFile ELSE u_file
              /\ u_rm' = IF u_path THEN u_rm + 1 ELSE u_rm
              /\ UNCHANGED <<u_yielded, u_open, u_backlog>>
    /\ UNCHANGED <<u_pc, u_gen, u_sa, u_path, u_next, uc>>
    /\ UNCHANGED u_cmode
    /\ UNCHANGED u_stale

U_PollNext(ok) ==
    /\ UnixStep
    /\ u_pc = "listening"
    /\ u_backlog # <<>>
    /\ IF ok
         THEN /\ u_yielded' = Append(u_yielded, Head(u_backlog))
              /\ u_open' = u_open \cup {Head(u_backlog)}
              /\ u_backlog' = AfterAccept(u_backlog)
              /\ u_last' = "conn"
         ELSE /\ u_last' = "accept_err"
              /\ UNCHANGED <<u_yielded, u_open, u_backlog>>
    /\ UNCHANGED <<u_pc, u_gen, u_sa, u_file, u_path, u_next, u_rm, uc>>
    /\ UNCHANGED u_cmode
    /\ UNCHANGED u_stale

\* fs::remove_file as called by Drop for Incoming: the file after the call.
\* `ok` is whether unlink(2) succeeds when the file is there.
\* faulty variant: the drop never removes the file
RemoveFile_Keep(file, ok) == file

RemoveFile(file, ok) == IF file.exists /\ ok THEN NoFile ELSE file

\* Drop for Incoming: removes the path when it has one, ignoring the result;
\* the listener closes and what it had queued is discarded.
U_DropIncoming(ok) ==
    /\ UnixStep
    /\ u_pc = "listening"
    /\ IF u_path
         THEN /\ u_file' = RemoveFile(u_file, ok)
              /\ u_rm' = u_rm + 1
              /\ u_last' = IF u_file.exists /\ ok THEN "removed" ELSE "remove_err"
         ELSE /\ u_last' = "no_path"
              /\ UNCHANGED <<u_file, u_rm>>
    /\ u_pc' = "dropped"
    /\ u_backlog' = <<>>
    /\ UNCHANGED <<u_gen, u_sa, u_path, u_yielded, u_open, u_next, uc>>
    /\ UNCHANGED u_cmode
    /\ UNCHANGED u_stale

\* Endpoint::new for the same path, once the previous Endpoint is gone
U_NewEndpoint ==
    /\ UnixStep
    /\ u_pc \in {"failed", "dropped"}
    /\ u_gen < MaxEndpoints
    /\ u_gen' = u_gen + 1
    /\ u_pc' = "new"
    /\ u_sa' = SA_empty
    /\ u_path' = FALSE
    /\ u_yielded' = <<>>
    /\ u_rm' = 0
    /\ u_last' = "none"
    /\ UNCHANGED <<u_file, u_backlog, u_open, u_next, uc>>
    /\ UNCHANGED u_cmode
    /\ UNCHANGED u_stale

\* the file has the mode that apply_permissions gives it for descriptor sa
CarriesMode(file, sa) ==
    sa.mode # NoMode /\ file.exists /\ file.mode = ChmodBits(sa.mode)

\* what connect(2) on the path returns for a client `who`
UnixConnectOutcome(who) ==
    IF ~u_file.exists THEN "ENOENT"
    ELSE IF ~WritableBy(u_file.mode, who) THEN "EACCES"
    ELSE IF ~ListenerLive THEN "ECONNREFUSED"
    ELSE IF Len(u_backlog) >= MaxBacklog THEN "EAGAIN"
    ELSE "ok"

\* Endpoint::connect (POSIX): UnixStream::connect(path).await? and wrap.
\* The record is what the call did: attempts made, sleeps taken, result.
\* faulty variant: a not-found error is retried once after a sleep
ConnectOnce_Retry(outcome, found) ==
    IF outcome = "ENOENT"
      THEN [attempts |-> 2, sleeps |-> 1, res |-> outcome, sawFile |-> found]
      ELSE [attempts |-> 1, sleeps |-> 0, res |-> outcome, sawFile |-> found]

ConnectOnce(outcome, found) ==
    [attempts |-> 1, sleeps |-> 0, res |-> outcome, sawFile |-> found]

U_Connect(who) ==
    /\ UnixStep
    /\ u_next <= MaxConns
    /\ LET out == UnixConnectOutcome(who) IN
         /\ uc' = ConnectOnce(out, u_file.exists)
         /\ IF out = "ok"
              THEN /\ u_backlog' = Append(u_backlog, u_next)
                   /\ u_next' = u_next + 1
                   /\ u_cmode' = IF CarriesMode(u_file, u_sa)
                                    THEN u_cmode
                                    ELSE u_cmode \cup {u_next}
              ELSE UNCHANGED <<u_backlog, u_next, u_cmode>>
    /\ UNCHANGED <<u_pc, u_gen, u_sa, u_file, u_path, u_yielded, u_open,
                   u_last, u_rm>>
    /\ UNCHANGED u_stale

\* dropping a yielded Connection closes its socket
U_DropConnection(id) ==
    /\ UnixStep
    /\ id \in u_open
    /\ u_open' = u_open \ {id}
    /\ UNCHANGED <<u_pc, u_gen, u_sa, u_file, u_path, u_backlog, u_yielded,
                   u_next, u_last, u_rm, uc>>
    /\ UNCHANGED u_cmode
    /\ UNCHANGED u_stale

\* another process unlinks the socket path
U_ExternalRemove ==
    /\ UnixStep
    /\ u_file.exists
    /\ u_file' = NoFile
    /\ u_stale' = FALSE
    /\ UNCHANGED <<u_pc, u_gen, u_sa, u_path, u_backlog, u_yielded, u_open,
                   u_next, u_last, u_rm, uc>>
    /\ UNCHANGED u_cmode

\* ============================================================ WINDOWS ====
NoInst == [st |-> "none", client |-> FALSE, first |-> FALSE]

WInit ==
    /\ w_pc = "new"
    /\ w_created = FALSE
    /\ w_inst = [i \in 1..MaxInst |-> NoInst]
    /\ w_n = 0
    /\ w_listener = 0
    /\ w_new = 0
    /\ w_yielded = <<>>
    /\ w_open = {}
    /\ w_last = "none"
    /\ c_pc = "idle"
    /\ c_calls = 0
    /\ c_elapsed = 0
    /\ c_res = "none"
    /\ c_busy = FALSE
    /\ c_freed = FALSE
    /\ w_flag = "none"

\* instances with an open server handle / without a client yet
OpenInsts(inst) == {i \in DOMAIN inst : inst[i].st = "open"}

FreeInsts(inst) == {i \in DOMAIN inst : inst[i].st = "open" /\ ~inst[i].client}

\* dropping the server handles `ids` closes those instances
\* faulty variant: dropping any server handle closes every instance
CloseInsts_All(inst, ids) ==
    [i \in DOMAIN inst |->
        IF inst[i].st = "open" THEN [inst[i] EXCEPT !.st = "closed"]
        ELSE inst[i]]

CloseInsts(inst, ids) ==
    [i \in DOMAIN inst |->
        IF i \in ids /\ inst[i].st = "open" THEN [inst[i] EXCEPT !.st = "closed"]
                                            ELSE inst[i]]

\* what a step of the pipe or of the client adds to the history c_freed
NoteFreed ==
    c_freed' = \/ c_freed /\ ~(c_pc = "idle" /\ c_pc' # "idle")
               \/ /\ c_pc' # "idle"
                  /\ c_busy'
                  /\ FreeInsts(w_inst') # {}
                  /\ c_elapsed' < PIPE_AVAILABILITY_TIMEOUT

\* .first_pipe_instance(!self.created_listener)
\* faulty variant: every creation claims to be the first
FirstFlag_Always(created) == TRUE

FirstFlag(created) == ~created

\* Endpoint::create_listener: first_pipe_instance(!created_listener), then
\* the creation call, then created_listener = true.  With the first-instance
\* flag the call fails when an instance of the name exists; `ok` is whether
\* the call succeeds otherwise.
\* faulty variant: once an instance exists no further one is created and the
\* latest is handed out again
CreateListener_FirstOnly(created, inst, n, ok) ==
    IF created
      THEN [err |-> ~ok, created |-> TRUE, inst |-> inst, n |-> n,
            id |-> IF ok THEN n ELSE 0, first |-> FALSE]
    ELSE IF ~ok \/ OpenInsts(inst) # {}
      THEN [err |-> TRUE, created |-> created, inst |-> inst, n |-> n,
            id |-> 0, first |-> TRUE]
      ELSE [err |-> FALSE, created |-> TRUE, first |-> TRUE,
            inst |-> [inst EXCEPT ![n + 1] =
                         [st |-> "open", client |-> FALSE, first |-> TRUE]],
            n |-> n + 1, id |-> n + 1]

CreateListener(created, inst, n, ok) ==
    LET first == FirstFlag(created)
        fails == ~ok \/ (first /\ OpenInsts(inst) # {})
    IN  IF fails
          THEN [err |-> TRUE, created |-> created, inst |-> inst, n |-> n,
                id |-> 0, first |-> first]
          ELSE [err |-> FALSE, created |-> TRUE, first |-> first,
                inst |-> [inst EXCEPT ![n + 1] =
                             [st |-> "open", client |-> FALSE, first |-> first]],
                n |-> n + 1, id |-> n + 1]

\* Endpoint::incoming: let pipe = self.create_listener()?; the stream is
\* built around (pipe, self)
W_Incoming(ok) ==
    /\ WinStep
    /\ w_pc = "new"
    /\ w_n < MaxInst
    /\ LET r == CreateListener(w_created, w_inst, w_n, ok) IN
         /\ w_created' = r.created
         /\ w_inst' = r.inst
         /\ w_n' = r.n
         /\ w_listener' = r.id
         /\ w_flag' = IF r.first THEN "first" ELSE "later"
         /\ w_pc' = IF r.err THEN "failed" ELSE "connect"
    /\ UNCHANGED <<w_new, w_yielded, w_open, w_last, c_pc, c_calls, c_elapsed,
                   c_res, c_busy>>
    /\ NoteFreed

\* production step, listener.connect().await?: completes once a client is
\* attached to the held instance; an error ends the stream with that error
\* (try_unfold drops the state, so the held instance closes)
\* faulty variant: the connect completes without a client
W_AwaitConnect_NoWait(ok) ==
    /\ WinStep
    /\ w_pc = "connect"
    /\ IF ok
         THEN /\ w_pc' = "create"
              /\ UNCHANGED <<w_inst, w_listener, w_last>>
         ELSE /\ w_pc' = "errored"
              /\ w_last' = "err_connect"
              /\ w_inst' = CloseInsts(w_inst, {w_listener})
              /\ w_listener' = 0
    /\ UNCHANGED <<w_created, w_n, w_new, w_yielded, w_open, c_pc, c_calls,
                   c_elapsed, c_res, c_busy>>
    /\ UNCHANGED w_flag
    /\ NoteFreed

W_AwaitConnect(ok) ==
    /\ WinStep
    /\ w_pc = "connect"
    /\ IF ok
         THEN /\ w_inst[w_listener].client
              /\ w_pc' = "create"
              /\ UNCHANGED <<w_inst, w_listener, w_last>>
         ELSE /\ w_pc' = "errored"
              /\ w_last' = "err_connect"
              /\ w_inst' = CloseInsts(w_inst, {w_listener})
              /\ w_listener' = 0
    /\ UNCHANGED <<w_created, w_n, w_new, w_yielded, w_open, c_pc, c_calls,
                   c_elapsed, c_res, c_busy>>
    /\ UNCHANGED w_flag
    /\ NoteFreed

\* the `?` on create_listener inside the closure: an error leaves the
\* closure, and try_unfold yields it and ends the stream
\* faulty variant: a failed creation is tried again by the next poll
AfterCreate_Retry(err) == IF err THEN "create" ELSE "wrap"

AfterCreate(err) == IF err THEN "errored" ELSE "wrap"

\* production step, let new_listener = endpoint.create_listener()?
W_CreateNext(ok) ==
    /\ WinStep
    /\ w_pc = "create"
    /\ w_n < MaxInst
    /\ LET r == CreateListener(w_created, w_inst, w_n, ok) IN
         /\ w_created' = r.created
         /\ w_n' = r.n
         /\ w_flag' = IF r.first THEN "first" ELSE "later"
         /\ w_pc' = AfterCreate(r.err)
         /\ IF r.err
              THEN /\ w_last' = "err_create"
                   /\ w_inst' = CloseInsts(r.inst, {w_listener})
                   /\ w_listener' = 0
                   /\ w_new' = 0
              ELSE /\ w_inst' = r.inst
                   /\ w_new' = r.id
                   /\ UNCHANGED <<w_listener, w_last>>
    /\ UNCHANGED <<w_yielded, w_open, c_pc, c_calls, c_elapsed, c_res, c_busy>>
    /\ NoteFreed

\* production step, Ok(Some((conn, (new_listener, endpoint)))): the state the
\* stream keeps for the next step
\* faulty variant: the stream keeps the instance it has just yielded
NextListener_Same(listener, new) == listener

NextListener(listener, new) == new

\* production step, Connection::wrap(NamedPipe::Server(listener)) and the
\* return: the connected instance is yielded, the new one is kept
W_Yield ==
    /\ WinStep
    /\ w_pc = "wrap"
    /\ w_yielded' = Append(w_yielded, w_listener)
    /\ w_open' = w_open \cup {w_listener}
    /\ w_listener' = NextListener(w_listener, w_new)
    /\ w_new' = 0
    /\ w_last' = "conn"
    /\ w_pc' = "connect"
    /\ UNCHANGED <<w_created, w_inst, w_n, c_pc, c_calls, c_elapsed, c_res,
                   c_busy>>
    /\ UNCHANGED w_flag
    /\ NoteFreed

\* poll_next after the closure returned an error: end of stream, every time
W_PollEnd ==
    /\ WinStep
    /\ w_pc \in {"errored", "terminated"}
    /\ w_pc' = "terminated"
    /\ w_last' = "end"
    /\ UNCHANGED <<w_created, w_inst, w_n, w_listener, w_new, w_yielded, w_open,
                   c_pc, c_calls, c_elapsed, c_res, c_busy>>
    /\ UNCHANGED w_flag
    /\ NoteFreed

\* the stream is dropped between polls: the instance it holds closes
W_DropIncoming ==
    /\ WinStep
    /\ w_pc \in {"connect", "errored", "terminated"}
    /\ w_inst' = CloseInsts(w_inst, {w_listener})
    /\ w_listener' = 0
    /\ w_pc' = "dropped"
    /\ UNCHANGED <<w_created, w_n, w_new, w_yielded, w_open, w_last, c_pc,
                   c_calls, c_elapsed, c_res, c_busy>>
    /\ UNCHANGED w_flag
    /\ NoteFreed

\* dropping a yielded Connection closes its pipe instance
W_DropConnection(id) ==
    /\ WinStep
    /\ id \in w_open
    /\ w_open' = w_open \ {id}
    /\ w_inst' = CloseInsts(w_inst, {id})
    /\ UNCHANGED <<w_pc, w_created, w_n, w_listener, w_new, w_yielded, w_last,
                   c_pc, c_calls, c_elapsed, c_res, c_busy>>
    /\ UNCHANGED w_flag
    /\ NoteFreed

\* another process's connect() opens the pipe: it takes a free instance
W_OtherClientOpen ==
    /\ WinStep
    /\ \E i \in FreeInsts(w_inst) : w_inst' = [w_inst EXCEPT ![i].client = TRUE]
    /\ UNCHANGED <<w_pc, w_created, w_n, w_listener, w_new, w_yielded, w_open,
                   w_last, c_pc, c_calls, c_elapsed, c_res, c_busy, w_flag>>
    /\ NoteFreed

\* ------------------------------------------------ Endpoint::connect (win)
\* ClientOptions::open on the pipe name
OpenOutcome(inst) ==
    IF FreeInsts(inst) # {} THEN "ok"
    ELSE IF OpenInsts(inst) # {} THEN "ERROR_PIPE_BUSY"
    ELSE "ERROR_FILE_NOT_FOUND"

\* attempt_start.elapsed() < PIPE_AVAILABILITY_TIMEOUT
\* faulty variant: the budget is never found used up
BudgetLeft_Always(elapsed) == TRUE

\* faulty variant: the budget is found used up at once
BudgetLeft_Never(elapsed) == FALSE

BudgetLeft(elapsed) == elapsed < PIPE_AVAILABILITY_TIMEOUT

\* the match arms of the loop: what connect() does with an open result
\* faulty variant: every error is retried while the budget lasts
AfterOpen_RetryAny(out, elapsed) ==
    IF out = "ok" THEN "return_ok"
    ELSE IF BudgetLeft(elapsed) THEN "sleep"
    ELSE "return_err"

AfterOpen(out, elapsed) ==
    IF out = "ok" THEN "return_ok"
    ELSE IF out = "ERROR_PIPE_BUSY"
         THEN IF BudgetLeft(elapsed) THEN "sleep" ELSE "return_err"
    ELSE "return_err"

\* the clock saturates above the budget
ElapsedCap == PIPE_AVAILABILITY_TIMEOUT + 2 * SLEEP_MILLIS

\* a sleep of SLEEP_MILLIS takes that long or longer
SleepAdvance == {SLEEP_MILLIS, 2 * SLEEP_MILLIS}

\* let attempt_start = Instant::now(), entering the loop
C_Call ==
    /\ WinStep
    /\ c_pc = "idle"
    /\ c_calls < MaxConnects
    /\ c_calls' = c_calls + 1
    /\ c_pc' = "open"
    /\ c_elapsed' = 0
    /\ c_res' = "none"
    /\ c_busy' = FALSE
    /\ UNCHANGED <<w_pc, w_created, w_inst, w_n, w_listener, w_new, w_yielded,
                   w_open, w_last>>
    /\ UNCHANGED w_flag
    /\ NoteFreed

\* one iteration of the loop up to the sleep or the return
C_Open ==
    /\ WinStep
    /\ c_pc = "open"
    /\ LET out == OpenOutcome(w_inst)
           act == AfterOpen(out, c_elapsed)
       IN  /\ c_busy' = (c_busy \/ out = "ERROR_PIPE_BUSY")
           /\ c_pc' = IF act = "sleep" THEN "sleep" ELSE "idle"
           /\ c_res' = IF act = "sleep" THEN c_res ELSE out
           /\ IF act = "return_ok"
                THEN \E i \in FreeInsts(w_inst) :
                        w_inst' = [w_inst EXCEPT ![i].client = TRUE]
                ELSE UNCHANGED w_inst
    /\ UNCHANGED <<w_pc, w_created, w_n, w_listener, w_new, w_yielded, w_open,
                   w_last, c_calls, c_elapsed>>
    /\ UNCHANGED w_flag
    /\ NoteFreed

\* tokio::time::sleep(50ms).await; continue
C_Sleep(d) ==
    /\ WinStep
    /\ c_pc = "sleep"
    /\ c_pc' = "open"
    /\ c_elapsed' = IF c_elapsed + d > ElapsedCap THEN ElapsedCap
                                                  ELSE c_elapsed + d
    /\ UNCHANGED <<w_pc, w_created, w_inst, w_n, w_listener, w_new, w_yielded,
                   w_open, w_last, c_calls, c_res, c_busy>>
    /\ UNCHANGED w_flag
    /\ NoteFreed

\* =========================================== SecurityAttributes (win.rs)
\* access masks as sets of flags; a | b is the union
GENERIC_READ == {"GENERIC_READ"}
GENERIC_WRITE == {"GENERIC_WRITE"}
FILE_WRITE_DATA == {"FILE_WRITE_DATA"}

EveryoneConstructors == {"allow_everyone_connect", "allow_everyone_create"}

\* the permissions each constructor passes to InnerAttributes::allow_everyone
Permissions(kind) ==
    IF kind = "allow_everyone_connect"
      THEN GENERIC_READ \cup FILE_WRITE_DATA
      ELSE GENERIC_READ \cup GENERIC_WRITE

\* the native objects of one chain: the security descriptor, the ACL of
\* Acl::empty(), the Everyone SID, the ACL of Acl::new(entries)
Objs == {"desc", "acl0", "sid", "acl1"}

\* DEFAULT_SECURITY_ATTRIBUTES: every pointer null; dacl is what the
\* descriptor's DACL points at, entries the contents of the ACL held
NullAttributes ==
    [descriptor |-> "null", acl |-> "null", lpSecurityDescriptor |-> "null",
     dacl |-> "none", entries |-> {}]

\* everyone_ace: trustee the SID, SET_ACCESS, the permissions, no inheritance
EveryoneAce(permissions) ==
    [trustee |-> "Everyone", mode |-> "SET_ACCESS",
     permissions |-> permissions, inherit |-> FALSE]

AInit ==
    /\ a_pc = "idle"
    /\ a_kind = "none"
    /\ a_att = NullAttributes
    /\ a_obj = [o \in Objs |-> "none"]
    /\ a_order = <<>>
    /\ a_sidref = FALSE
    /\ a_res = "none"
    /\ a_step = "none"
    /\ a_last = "none"

\* Drop for SecurityDescriptor / Acl / Sid: release unless the pointer is null
Release(st, o) ==
    IF o = "null" THEN st
    ELSE [obj |-> [st.obj EXCEPT ![o] = "freed"], order |-> Append(st.order, o)]

RECURSIVE ReleaseAll(_, _)
ReleaseAll(st, os) ==
    IF os = <<>> THEN st ELSE ReleaseAll(Release(st, Head(os)), Tail(os))

\* struct InnerAttributes { descriptor, acl, attrs }: fields drop in
\* declaration order
\* faulty variant: the ACL is released before the descriptor
DropInner_AclFirst(att) == <<att.acl, att.descriptor>>

DropInner(att) == <<att.descriptor, att.acl>>

\* what SecurityDescriptor::new's early return releases when
\* InitializeSecurityDescriptor fails: nothing, the raw pointer is not yet
\* wrapped in a SecurityDescriptor
InitFailureReleases == <<>>

\* the locals of allow_everyone that go out of scope at its return, in
\* reverse declaration order: entries, everyone_ace, sid; then, on an error
\* return, attributes
ReturnReleases(att, error) ==
    <<"sid">> \o (IF error THEN DropInner(att) ELSE <<>>)

Here == [obj |-> a_obj, order |-> a_order]

\* a constructor may be called when no chain is under construction; the
\* model follows one chain at a time
CanConstruct == a_pc \in {"idle", "failed", "panicked", "dropped"}

\* SecurityAttributes::empty()
A_Empty ==
    /\ AttrStep
    /\ CanConstruct
    /\ a_pc' = "held"
    /\ a_kind' = "empty"
    /\ a_att' = NullAttributes
    /\ a_obj' = [o \in Objs |-> "none"]
    /\ a_order' = <<>>
    /\ a_sidref' = FALSE
    /\ a_res' = "ok"
    /\ a_step' = "none"
    /\ a_last' = "empty"

\* allow_everyone_connect() / allow_everyone_create() entering
\* InnerAttributes::allow_everyone, InnerAttributes::empty,
\* SecurityDescriptor::new
A_AllowEveryone(kind) ==
    /\ AttrStep
    /\ CanConstruct
    /\ a_pc' = "local_alloc"
    /\ a_kind' = kind
    /\ a_att' = NullAttributes
    /\ a_obj' = [o \in Objs |-> "none"]
    /\ a_order' = <<>>
    /\ a_sidref' = FALSE
    /\ a_res' = "none"
    /\ a_step' = "none"
    /\ a_last' = kind

\* LocalAlloc(LPTR, size_of::<SECURITY_DESCRIPTOR>()); null gives
\* io::Error::new(ErrorKind::Other, ..)
A_LocalAlloc(ok) ==
    /\ AttrStep
    /\ a_pc = "local_alloc"
    /\ IF ok
         THEN /\ a_obj' = [a_obj EXCEPT !["desc"] = "alive"]
              /\ a_pc' = "init_descriptor"
              /\ UNCHANGED <<a_res, a_step>>
         ELSE /\ a_pc' = "failed"
              /\ a_res' = "other_error"
              /\ a_step' = "LocalAlloc"
              /\ UNCHANGED a_obj
    /\ UNCHANGED <<a_kind, a_att, a_order, a_sidref, a_last>>

\* InitializeSecurityDescriptor; 0 gives Err(last_os_error()); on success
\* the pointer is wrapped and attrs.lpSecurityDescriptor points at it
A_InitializeSecurityDescriptor(ok) ==
    /\ AttrStep
    /\ a_pc = "init_descriptor"
    /\ IF ok
         THEN /\ a_att' = [a_att EXCEPT !.descriptor = "desc",
                                        !.lpSecurityDescriptor = "desc"]
              /\ a_pc' = "acl_empty"
              /\ UNCHANGED <<a_obj, a_order, a_res, a_step>>
         ELSE LET st == ReleaseAll(Here, InitFailureReleases)
              IN  /\ a_obj' = st.obj
                  /\ a_order' = st.order
                  /\ a_pc' = "failed"
                  /\ a_res' = "os_error"
                  /\ a_step' = "InitializeSecurityDescriptor"
                  /\ UNCHANGED a_att
    /\ UNCHANGED <<a_kind, a_sidref, a_last>>

\* Acl::empty().expect("this should never fail"): a failure panics, and the
\* unwinding drops the local descriptor
A_AclEmpty(ok) ==
    /\ AttrStep
    /\ a_pc = "acl_empty"
    /\ IF ok
         THEN /\ a_obj' = [a_obj EXCEPT !["acl0"] = "alive"]
              /\ a_att' = [a_att EXCEPT !.acl = "acl0"]
              /\ a_pc' = "everyone_sid"
              /\ UNCHANGED <<a_order, a_res, a_step>>
         ELSE LET st == ReleaseAll(Here, <<a_att.descriptor>>)
              IN  /\ a_obj' = st.obj
                  /\ a_order' = st.order
                  /\ a_pc' = "panicked"
                  /\ a_res' = "panic"
                  /\ a_step' = "SetEntriesInAclW_empty"
                  /\ UNCHANGED a_att
    /\ UNCHANGED <<a_kind, a_sidref, a_last>>

\* Sid::everyone_sid()?, then the ACE built on the SID pointer
A_EveryoneSid(ok) ==
    /\ AttrStep
    /\ a_pc = "everyone_sid"
    /\ IF ok
         THEN /\ a_obj' = [a_obj EXCEPT !["sid"] = "alive"]
              /\ a_sidref' = TRUE
              /\ a_pc' = "acl_new"
              /\ UNCHANGED <<a_order, a_res, a_step>>
         ELSE LET st == ReleaseAll(Here, DropInner(a_att))
              IN  /\ a_obj' = st.obj
                  /\ a_order' = st.order
                  /\ a_pc' = "failed"
                  /\ a_res' = "os_error"
                  /\ a_step' = "AllocateAndInitializeSid"
                  /\ UNCHANGED a_sidref
    /\ UNCHANGED <<a_kind, a_att, a_last>>

\* attributes.acl = Acl::new(&mut entries)?: the assignment drops the ACL
\* held before; an error returns Err(from_raw_os_error(result))
A_AclNew(ok) ==
    /\ AttrStep
    /\ a_pc = "acl_new"
    /\ IF ok
         THEN LET st == Release([obj |-> [a_obj EXCEPT !["acl1"] = "alive"],
                                 order |-> a_order], a_att.acl)
              IN  /\ a_obj' = st.obj
                  /\ a_order' = st.order
                  /\ a_att' = [a_att EXCEPT
                                 !.acl = "acl1",
                                 !.entries = {EveryoneAce(Permissions(a_kind))}]
                  /\ a_pc' = "set_dacl"
                  /\ UNCHANGED <<a_sidref, a_res, a_step>>
         ELSE LET st == ReleaseAll(Here, ReturnReleases(a_att, TRUE))
              IN  /\ a_obj' = st.obj
                  /\ a_order' = st.order
                  /\ a_sidref' = FALSE
                  /\ a_pc' = "failed"
                  /\ a_res' = "os_error"
                  /\ a_step' = "SetEntriesInAclW"
                  /\ UNCHANGED a_att
    /\ UNCHANGED <<a_kind, a_last>>

\* attributes.descriptor.set_dacl(&attributes.acl)?; Ok(attributes), and the
\* Ok(SecurityAttributes { attributes }) of the public constructor
A_SetDacl(ok) ==
    /\ AttrStep
    /\ a_pc = "set_dacl"
    /\ LET st == ReleaseAll(Here, ReturnReleases(a_att, ~ok))
       IN  /\ a_obj' = st.obj
           /\ a_order' = st.order
    /\ a_sidref' = FALSE
    /\ IF ok
         THEN /\ a_att' = [a_att EXCEPT !.dacl = a_att.acl]
              /\ a_pc' = "held"
              /\ a_res' = "ok"
              /\ UNCHANGED a_step
         ELSE /\ a_pc' = "failed"
              /\ a_res' = "os_error"
              /\ a_step' = "SetSecurityDescriptorDacl"
              /\ UNCHANGED a_att
    /\ UNCHANGED <<a_kind, a_last>>

\* SecurityAttributes::set_mode(self, _mode): Ok(self)
\* faulty variant: the mode clears the entries
Win_set_mode_Clear(att, mode) == [att EXCEPT !.entries = {}]

Win_set_mode(att, mode) == att

A_SetMode(m) ==
    /\ AttrStep
    /\ a_pc = "held"
    /\ a_att' = Win_set_mode(a_att, m)
    /\ a_last' = "set_mode"
    /\ UNCHANGED <<a_pc, a_kind, a_obj, a_order, a_sidref, a_res, a_step>>

\* the SecurityAttributes value goes out of scope
A_DropAttributes ==
    /\ AttrStep
    /\ a_pc = "held"
    /\ LET st == ReleaseAll(Here, DropInner(a_att))
       IN  /\ a_obj' = st.obj
           /\ a_order' = st.order
    /\ a_pc' = "dropped"
    /\ a_last' = "drop"
    /\ UNCHANGED <<a_kind, a_att, a_sidref, a_res, a_step>>

\* ========================================================= specification
vars == <<platform, uvars, wvars, avars>>

Init ==
    /\ platform \in {"unix", "windows", "windows_sa"}
    /\ UInit
    /\ WInit
    /\ AInit

Next ==
    \/ \E sa \in Descriptors : U_SetSecurityAttributes(sa)
    \/ \E bm \in BindModes : U_Bind(bm)
    \/ \E ok \in BOOLEAN : U_ApplyPermissions(ok)
    \/ \E bm \in BindModes : U_FromStdListener(bm)
    \/ \E ok \in BOOLEAN : U_PollNext(ok)
    \/ \E ok \in BOOLEAN : U_DropIncoming(ok)
    \/ U_NewEndpoint
    \/ \E who \in Users : U_Connect(who)
    \/ \E id \in 1..MaxConns : U_DropConnection(id)
    \/ U_ExternalRemove
    \/ \E ok \in BOOLEAN : W_Incoming(ok)
    \/ \E ok \in BOOLEAN : W_AwaitConnect(ok)
    \/ \E ok \in BOOLEAN : W_CreateNext(ok)
    \/ W_Yield
    \/ W_PollEnd
    \/ W_DropIncoming
    \/ \E id \in 1..MaxInst : W_DropConnection(id)
    \/ W_OtherClientOpen
    \/ C_Call
    \/ C_Open
    \/ \E d \in SleepAdvance : C_Sleep(d)
    \/ A_Empty
    \/ \E kind \in EveryoneConstructors : A_AllowEveryone(kind)
    \/ \E ok \in BOOLEAN : A_LocalAlloc(ok)
    \/ \E ok \in BOOLEAN : A_InitializeSecurityDescriptor(ok)
    \/ \E ok \in BOOLEAN : A_AclEmpty(ok)
    \/ \E ok \in BOOLEAN : A_EveryoneSid(ok)
    \/ \E ok \in BOOLEAN : A_AclNew(ok)
    \/ \E ok \in BOOLEAN : A_SetDacl(ok)
    \/ \E m \in SetModeValues : A_SetMode(m)
    \/ A_DropAttributes

Spec == Init /\ [][Next]_vars

\* the client's steps are scheduled: a finished sleep and a pending open
\* attempt are eventually run
SpecFair ==
    /\ Spec
    /\ WF_vars(C_Open)
    /\ WF_vars(\E d \in SleepAdvance : C_Sleep(d))

\* ================================================================ claims
Range(seq) == {seq[i] : i \in DOMAIN seq}

NoDup(seq) == \A i, j \in DOMAIN seq : i # j => seq[i] # seq[j]

\* the step that drops an Incoming made by Endpoint::incoming()
DropsIncoming == u_pc = "listening" /\ u_path /\ u_pc' = "dropped"

\* C1 as stated: once the Incoming sequence of incoming() has been dropped,
\* the bound path no longer exists.
C1_Original == [][DropsIncoming => ~u_file'.exists]_vars

\* C1 amended: after the drop the bound path exists only if it existed before
\* the drop and the single remove_file call failed; when the removal succeeds
\* (or the path was already gone) the path does not exist, however many
\* connections were accepted.
C1_Amended ==
    [][DropsIncoming =>
          (u_file'.exists <=> (u_file.exists /\ u_last' = "remove_err"))]_vars

C1_Witness ==
    /\ u_pc = "dropped"
    /\ u_last = "removed"
    /\ ~u_file.exists
    /\ Len(u_yielded) >= 1

\* the Windows stream is between incoming() and its end
StreamAlive == w_pc \in {"connect", "create", "wrap"}

\* a step of connect() that makes an open attempt
OpenAttempt == c_pc = "open" /\ c_pc' # "open"

Attached == {i \in DOMAIN w_inst : w_inst[i].client}

\* C2 as stated: every open attempt of sequential clients against a consumed
\* sequence succeeds and none sees pipe-busy (a free instance exists whenever
\* an attempt is issued).
C2_Original ==
    [][(OpenAttempt /\ StreamAlive) =>
          (OpenOutcome(w_inst) = "ok" /\ c_res' = "ok")]_vars

\* C2 amended: an open attempt issued when every client attached so far has
\* already been yielded by the sequence (the production step for the previous
\* client has completed and the stream waits on its replacement) finds a free
\* instance and succeeds.
C2_Amended ==
    [][(OpenAttempt /\ w_pc = "connect"
          /\ Cardinality(Attached) = Len(w_yielded)) =>
          (w_listener \in FreeInsts(w_inst) /\ c_res' = "ok"
             /\ w_inst'[w_listener].client)]_vars

C2_Witness ==
    /\ c_calls >= 2
    /\ c_res = "ok"
    /\ ~c_busy
    /\ w_pc = "connect"
    /\ Len(w_yielded) >= 1
    /\ w_inst[w_listener].client

\* the step in which the Windows stream yields a Connection
Yields == Len(w_yielded') > Len(w_yielded)

\* C3: when a Connection is yielded, the yielded instance already has its
\* client, and the replacement instance was created after it, before the
\* yield (the yield itself creates nothing), and is the one the stream keeps.
C3_ReplacementBeforeYield ==
    [][Yields =>
          LET y == w_yielded'[Len(w_yielded')] IN
            /\ w_pc = "wrap"
            /\ w_inst[y].client
            /\ w_n' = w_n
            /\ w_listener' \in OpenInsts(w_inst)
            /\ w_listener' > y]_vars

C3_Witness ==
    /\ w_last = "conn"
    /\ Len(w_yielded) >= 2
    /\ w_listener \in FreeInsts(w_inst)

\* C4: a failed creation in a production step yields the error and ends the
\* stream: the connected instance of that step is closed, not yielded, and
\* from then on no instance is created, no Connection is yielded and every
\* poll reports the end.
C4_CreateFailureEnds ==
    [][/\ (w_pc = "create" /\ w_last' = "err_create") =>
            /\ w_pc' = "errored"
            /\ w_yielded' = w_yielded
            /\ w_listener \notin Range(w_yielded')
            /\ w_listener \notin OpenInsts(w_inst')
       /\ (w_pc \in {"errored", "terminated"}) =>
            /\ w_pc' \in {"errored", "terminated", "dropped"}
            /\ w_n' = w_n
            /\ w_yielded' = w_yielded
            /\ (w_last' # w_last => w_last' = "end")
            /\ (w_pc = "terminated" => w_last' = "end")]_vars

C4_Witness ==
    /\ w_pc = "errored"
    /\ w_last = "err_create"
    /\ Len(w_yielded) >= 1

\* C5: no accepted connection is yielded twice, and what the sequence still
\* holds for the next accept (queued connections on POSIX, the listening
\* instance on Windows) is none of the yielded ones.
C5_YieldedOnce ==
    /\ NoDup(u_yielded)
    /\ Range(u_yielded) \cap Range(u_backlog) = {}
    /\ NoDup(w_yielded)
    /\ w_listener \notin Range(w_yielded)
    /\ w_new \notin Range(w_yielded)

C5_Witness ==
    /\ Len(w_yielded) >= 2
    /\ w_listener # 0
    /\ w_pc = "connect"

\* the path bound by a successful incoming() of the current Endpoint
BoundByIncoming ==
    /\ u_pc = "listening"
    /\ u_path
    /\ u_file.exists
    /\ u_file.gen = u_gen

\* the mode C6 names for the last builder call of the descriptor in force
NamedMode(sa) ==
    IF sa.op = "empty" THEN \o600
    ELSE IF sa.op = "allow_everyone_connect" THEN \o666
    ELSE sa.arg

\* C6 as stated: after incoming() the mode bits are 0600 by default, 0666
\* for allow_everyone_connect() and exactly v for set_mode(v).
C6_Original ==
    (BoundByIncoming /\ u_sa.op # "allow_everyone_create") =>
        u_file.mode = NamedMode(u_sa)

\* C6 amended: 0600 by default, 0666 for allow_everyone_connect(), and for
\* set_mode(v) the low twelve bits of v (v itself when v <= 07777): chmod
\* discards the bits of v above 07777.
C6_Amended ==
    (BoundByIncoming /\ u_sa.op # "allow_everyone_create") =>
        u_file.mode = NamedMode(u_sa) % \o10000

C6_Witness ==
    /\ BoundByIncoming
    /\ u_sa.op = "set_mode"
    /\ u_sa.arg = \o10644
    /\ u_file.mode = \o644

\* C7 as stated: with allow_everyone_create() the bound path ends up with
\* mode 0666 after incoming(), as with allow_everyone_connect().
C7_CreateIsConnect ==
    (BoundByIncoming /\ u_sa.op = "allow_everyone_create") =>
        u_file.mode = \o666

\* C8: a finished POSIX connect() made one attempt and no sleep, and with no
\* file at the path its result is the not-found error of that attempt.
C8_SingleAttempt ==
    uc.res # "none" =>
        /\ uc.attempts = 1
        /\ uc.sleeps = 0
        /\ (~uc.sawFile => uc.res = "ENOENT")

C8_Witness == uc.res = "ENOENT" /\ ~uc.sawFile /\ uc.attempts = 1

\* C9: an open attempt that succeeds returns at once; one that fails with
\* another error than pipe-busy returns that error at once; a busy failure
\* below the budget goes to the sleep and then to another attempt; a busy
\* error is returned only from an attempt made with the budget used up.
C9_RetryOnlyOnBusy ==
    [][/\ OpenAttempt =>
            LET out == OpenOutcome(w_inst) IN
              /\ c_elapsed' = c_elapsed
              /\ (out = "ok" => (c_pc' = "idle" /\ c_res' = "ok"))
              /\ (out \notin {"ok", "ERROR_PIPE_BUSY"} =>
                    (c_pc' = "idle" /\ c_res' = out))
              /\ ((out = "ERROR_PIPE_BUSY"
                     /\ c_elapsed < PIPE_AVAILABILITY_TIMEOUT) =>
                    (c_pc' = "sleep" /\ c_res' = "none"))
              /\ ((out = "ERROR_PIPE_BUSY"
                     /\ c_elapsed >= PIPE_AVAILABILITY_TIMEOUT) =>
                    (c_pc' = "idle" /\ c_res' = "ERROR_PIPE_BUSY"))
       /\ (c_pc = "sleep" /\ c_pc' # "sleep") =>
            (c_pc' = "open" /\ c_elapsed' >= c_elapsed + SLEEP_MILLIS)
       /\ c_res' = "ERROR_PIPE_BUSY" =>
            c_elapsed' >= PIPE_AVAILABILITY_TIMEOUT]_vars

C9_Witness ==
    /\ c_pc = "idle"
    /\ c_res = "ERROR_PIPE_BUSY"
    /\ c_elapsed >= PIPE_AVAILABILITY_TIMEOUT

\* C10: a pending connect() that keeps finding the pipe busy ends, returning
\* the busy error with the budget used up: from any state with a connect()
\* in progress, either an attempt stops being answered busy or the call
\* returns ERROR_PIPE_BUSY at an elapsed time of at least the budget.
C10_BusyTerminates ==
    (c_pc # "idle") ~>
        \/ OpenOutcome(w_inst) # "ERROR_PIPE_BUSY"
        \/ /\ c_pc = "idle"
           /\ c_res = "ERROR_PIPE_BUSY"
           /\ c_elapsed >= PIPE_AVAILABILITY_TIMEOUT

C10_Witness ==
    /\ c_pc = "idle"
    /\ c_res = "ERROR_PIPE_BUSY"
    /\ c_busy
    /\ w_pc = "connect"
    /\ w_yielded = <<>>
    /\ OpenOutcome(w_inst) = "ERROR_PIPE_BUSY"

\* C11 as stated: a connect() that found every instance occupied and during
\* which an instance was free before the budget was used up returns success.
C11_Original ==
    (c_pc = "idle" /\ c_busy /\ c_freed) => c_res = "ok"

\* C11, amended: a connect() that found every instance occupied goes on to
\* another attempt after a sleep while the budget is not used up, and an
\* attempt of it that finds an instance free attaches to one and returns
\* success; a freed instance that is taken or closed before the next attempt
\* does not count.
C11_Amended ==
    [][OpenAttempt =>
         /\ (c_busy /\ FreeInsts(w_inst) # {}) =>
               /\ c_pc' = "idle"
               /\ c_res' = "ok"
               /\ \E i \in FreeInsts(w_inst) : w_inst'[i].client
         /\ (OpenOutcome(w_inst) = "ERROR_PIPE_BUSY"
                /\ c_elapsed < PIPE_AVAILABILITY_TIMEOUT) =>
               (c_pc' = "sleep" /\ c_res' = "none")]_vars

C11_Witness ==
    /\ c_pc = "idle"
    /\ c_res = "ok"
    /\ c_busy
    /\ c_freed
    /\ c_elapsed > 0

\* the releases of the three objects of a finished chain, in order
ChainOrder == SelectSeq(a_order, LAMBDA o : o \in {"desc", "acl1", "sid"})

BuiltByAllowEveryone ==
    /\ a_kind \in EveryoneConstructors
    /\ a_res = "ok"
    /\ a_pc \in {"held", "dropped"}

C13_ReleasedOnError ==
    a_pc = "failed" =>
        \A o \in Objs :
            /\ a_obj[o] # "alive"
            /\ (a_obj[o] = "freed" =>
                  Len(SelectSeq(a_order, LAMBDA x : x = o)) = 1)

\* C14 as stated: a constructor that fails ends with an error value carrying
\* the OS error code: no panic, no error made up in place of the OS error.
C14_OsErrorOnly ==
    a_pc \in {"failed", "panicked"} => a_res = "os_error"

\* C17: the DACL of a held SecurityAttributes value is decided by the
\* constructor alone: empty() has no explicit DACL; allow_everyone_connect
\* has exactly one entry granting GENERIC_READ | FILE_WRITE_DATA to Everyone;
\* allow_everyone_create exactly one granting GENERIC_READ | GENERIC_WRITE;
\* set_mode(d, m) is d for every m; and a constructor none of whose OS calls
\* failed has returned Ok.
C17_DaclByConstructor ==
    /\ a_pc = "held" =>
        /\ \A m \in SetModeValues : Win_set_mode(a_att, m) = a_att
        /\ (a_kind = "empty" =>
              /\ a_att.dacl = "none"
              /\ a_att.lpSecurityDescriptor = "null"
              /\ a_att.entries = {})
        /\ (a_kind \in EveryoneConstructors =>
              /\ a_att.dacl = "acl1"
              /\ a_att.acl = "acl1"
              /\ a_att.lpSecurityDescriptor = "desc"
              /\ Cardinality(a_att.entries) = 1
              /\ \A e \in a_att.entries :
                    /\ e.trustee = "Everyone"
                    /\ e.mode = "SET_ACCESS"
                    /\ e.permissions =
                         IF a_kind = "allow_everyone_connect"
                           THEN {"GENERIC_READ", "FILE_WRITE_DATA"}
                           ELSE {"GENERIC_READ", "GENERIC_WRITE"})
    /\ (a_pc \in {"held", "failed", "panicked", "dropped"} /\ a_step = "none")
          => a_res = "ok"

C17_Witness ==
    /\ a_pc = "held"
    /\ a_kind = "allow_everyone_connect"
    /\ a_last = "set_mode"
    /\ a_att.entries # {}

\* a step that makes a creation call: incoming()'s, or a production step's
CreationCall == w_pc \in {"new", "create"} /\ w_pc' # w_pc

\* C15: a creation call carries the first-pipe-instance flag exactly when
\* the Endpoint has not yet created an instance successfully: the call of
\* incoming() carries it, the calls for replacement instances do not, and an
\* instance created is marked accordingly; created_listener becomes true
\* only by a creation call that succeeded and never goes back to false.
C15_FirstInstanceFlag ==
    [][/\ CreationCall =>
            /\ (w_flag' = "first") <=> ~w_created
            /\ w_flag' \in {"first", "later"}
            /\ (w_pc = "new" => w_flag' = "first")
            /\ (w_pc = "create" => w_flag' = "later")
            /\ (w_n' # w_n => w_inst'[w_n'].first = ~w_created)
       /\ w_created => w_created'
       /\ (~w_created /\ w_created') =>
            /\ CreationCall
            /\ w_n' = w_n + 1
            /\ w_inst'[w_n'].st = "open"]_vars

C15_Witness ==
    /\ w_created
    /\ w_flag = "later"
    /\ w_n >= 2
    /\ w_inst[1].first
    /\ ~w_inst[2].first

\* a step that leaves the POSIX sequence alive with an accept or an accept
\* error as its last operation
UnixAccepts ==
    /\ u_pc = "listening"
    /\ u_pc' = "listening"
    /\ u_last' \in {"conn", "accept_err"}

\* C16: an Incoming holding a bound path has had no removal attempted while
\* it is alive, whatever accepts and accept errors happened, and exactly one
\* once it is dropped (a sequence of from_std_listener holds no path and
\* attempts none); the drop always completes, and when its removal fails the
\* file, the Endpoint's fields and the yielded connections are as before.
C16_RemovalOnceAtDrop ==
    [][/\ u_pc \in {"new", "bound", "listening", "failed"} => u_rm = 0
       /\ u_pc = "dropped" => u_rm = IF u_path THEN 1 ELSE 0
       /\ UnixAccepts => u_rm' = u_rm
       /\ u_rm' > u_rm => (DropsIncoming /\ u_rm' = u_rm + 1)
       /\ DropsIncoming =>
            /\ u_rm' = u_rm + 1
            /\ u_last' \in {"removed", "remove_err"}
            /\ (u_last' = "remove_err" => u_file' = u_file)
            /\ (u_last' = "removed" => u_file' = NoFile)
            /\ UNCHANGED <<u_gen, u_sa, u_path, u_yielded, u_open, u_next,
                           uc>>]_vars

C16_Witness ==
    /\ u_pc = "dropped"
    /\ u_path
    /\ u_rm = 1
    /\ u_last = "remove_err"
    /\ u_file.exists
    /\ Len(u_yielded) >= 1

\* the step in which incoming() returns an Incoming
ReturnsIncoming == u_pc # "listening" /\ u_pc' = "listening" /\ u_path'

\* the path's file has its mode bits changed
ModeChanged ==
    /\ u_file.exists
    /\ u_file'.exists
    /\ u_file'.gen = u_file.gen
    /\ u_file'.mode # u_file.mode

\* C18: incoming() binds first and applies the permissions second: mode bits
\* change only after a bind that succeeded; a failed bind makes incoming()
\* fail with the bind error and nothing is applied; after a successful bind
\* incoming() either fails with the error of the apply or returns the
\* Incoming with the descriptor's mode applied.
C18_BindThenApply ==
    [][/\ ModeChanged => (u_pc = "bound" /\ u_last = "bind_ok")
       /\ (u_pc = "new" /\ u_pc' = "failed") =>
            /\ u_last' = "EADDRINUSE"
            /\ u_file' = u_file
            /\ ~u_path'
       /\ (u_pc = "new" /\ u_pc' = "bound") =>
            /\ u_last' = "bind_ok"
            /\ ~u_file.exists
            /\ u_file'.exists
            /\ u_file'.gen = u_gen
            /\ ~u_path'
       /\ (u_pc = "bound" /\ u_pc' # "bound") =>
            \/ /\ u_pc' = "failed"
               /\ u_last' = "chmod_err"
               /\ u_sa.mode # NoMode
               /\ u_file' = u_file
               /\ ~u_path'
            \/ /\ ReturnsIncoming
               /\ u_sa.mode # NoMode =>
                    /\ u_file'.exists
                    /\ u_file'.mode = u_sa.mode % \o10000
       /\ ReturnsIncoming => (u_pc = "bound" /\ u_last = "bind_ok")
       /\ u_pc = "failed" => u_pc' \in {"failed", "new"}]_vars

C18_Witness ==
    /\ u_pc = "failed"
    /\ u_last = "chmod_err"
    /\ u_file.exists
    /\ u_file.gen = u_gen
    /\ ~u_path

\* the states of the sequence as C19 names them.  Windows: the stream holds
\* a listener and no client has been taken from it (Idle until polled,
\* Waiting once polled: "Waiting"); the held instance has its client and the
\* production step is under way ("Ready"); the stream has ended or is
\* dropped ("Closed"); no stream exists ("None").
WinSeq(pc) ==
    CASE pc = "connect" -> "Waiting"
      [] pc \in {"create", "wrap"} -> "Ready"
      [] pc \in {"errored", "terminated", "dropped"} -> "Closed"
      [] OTHER -> "None"

\* POSIX: poll_next accepts and yields in one step, so the sequence is
\* Waiting while it lives and passes through Ready within the yielding step
UnixSeq(pc) ==
    CASE pc = "listening" -> "Waiting"
      [] pc = "dropped" -> "Closed"
      [] OTHER -> "None"

UnixYields == Len(u_yielded') > Len(u_yielded)

\* C19: the sequence starts Waiting, enters Ready only from Waiting and only
\* with a client attached, yields a connection only from Ready and goes back
\* to Waiting (on POSIX the yielding step takes a client that is queued, from
\* Waiting back to Waiting), and Closed is absorbing: from Closed no accept
\* completes, no instance is created and no connection is yielded.
C19_SequenceStates ==
    [][/\ Yields => (WinSeq(w_pc) = "Ready" /\ WinSeq(w_pc') = "Waiting")
       /\ (WinSeq(w_pc) # "Ready" /\ WinSeq(w_pc') = "Ready") =>
            /\ WinSeq(w_pc) = "Waiting"
            /\ w_inst[w_listener].client
       /\ (WinSeq(w_pc) = "None" /\ WinSeq(w_pc') # "None") =>
            WinSeq(w_pc') = "Waiting"
       /\ WinSeq(w_pc) = "Closed" =>
            /\ WinSeq(w_pc') = "Closed"
            /\ w_yielded' = w_yielded
            /\ w_n' = w_n
            /\ w_listener' = 0
       /\ UnixYields =>
            /\ UnixSeq(u_pc) = "Waiting"
            /\ UnixSeq(u_pc') = "Waiting"
            /\ u_backlog # <<>>
            /\ u_yielded' = Append(u_yielded, Head(u_backlog))
       /\ (UnixSeq(u_pc) = "None" /\ UnixSeq(u_pc') # "None") =>
            UnixSeq(u_pc') = "Waiting"
       /\ UnixSeq(u_pc) = "Closed" =>
            /\ UnixSeq(u_pc') \in {"Closed", "None"}
            /\ ~UnixYields
            /\ u_backlog' = <<>>]_vars

C19_Witness ==
    /\ WinSeq(w_pc) = "Closed"
    /\ Len(w_yielded) >= 2
    /\ w_last = "end"

\* C20: the handle of every Connection yielded and not yet dropped is open,
\* and a step that does not drop that Connection (the drop of the sequence,
\* further accepts and creations, a new Endpoint) leaves it open and
\* unchanged; the drop of a Connection closes its own handle only and leaves
\* the sequence, the listener and the bound path as they were.
C20_ConnectionIndependent ==
    [][/\ \A id \in w_open : w_inst[id].st = "open" /\ w_inst[id].client
       /\ \A id \in w_open \cap w_open' : w_inst'[id] = w_inst[id]
       /\ w_open' # w_open =>
            \/ Yields /\ w_open' = w_open \cup {w_listener}
            \/ \E id \in w_open :
                 /\ w_open' = w_open \ {id}
                 /\ w_inst' = [w_inst EXCEPT ![id].st = "closed"]
                 /\ UNCHANGED <<w_pc, w_created, w_n, w_listener, w_new,
                                w_yielded, w_last>>
       /\ (w_pc # "dropped" /\ w_pc' = "dropped") => w_open' = w_open
       /\ u_open' # u_open =>
            \/ UnixYields /\ u_open' = u_open \cup {Head(u_backlog)}
            \/ \E id \in u_open :
                 /\ u_open' = u_open \ {id}
                 /\ UNCHANGED <<u_pc, u_gen, u_sa, u_file, u_path, u_backlog,
                                u_yielded, u_rm, u_last>>
       /\ (u_pc # u_pc' /\ ~UnixYields) => u_open' = u_open]_vars

C20_Witness ==
    /\ w_pc = "dropped"
    /\ Cardinality(w_open) = 1
    /\ Len(w_yielded) = 2
    /\ \A id \in w_open : w_inst[id].st = "open"

\* C21 as stated: every connection yielded by the sequence of incoming() was
\* made when the socket file already carried the descriptor's mode; none
\* made between the bind and the permission apply is yielded.
C21_NoWindowConnection ==
    (u_path /\ u_sa.mode # NoMode) =>
        \A i \in DOMAIN u_yielded : u_yielded[i] \notin u_cmode

\* the step in which incoming() fails at apply_permissions
ApplyFails == u_pc = "bound" /\ u_pc' = "failed"

\* C22: an incoming() that fails at the permission apply removes nothing:
\* the file of its bind is as it was at the failure; while that file stays
\* at the path no Incoming exists for it, the program attempts no removal,
\* and the bind of a later incoming() on the path fails with EADDRINUSE and
\* leaves the file; the file goes only by a removal from outside.
C22_FailedApplyLeavesFile ==
    [][/\ ApplyFails =>
            /\ u_last' = "chmod_err"
            /\ u_file' = u_file
            /\ u_rm' = u_rm
            /\ ~u_path'
            /\ u_stale' = u_file.exists
       /\ u_stale =>
            /\ u_file.exists
            /\ u_pc \in {"failed", "new"}
            /\ u_rm = 0
       /\ (u_stale /\ u_pc = "new" /\ u_pc' # "new") =>
            /\ u_pc' = "failed"
            /\ u_last' = "EADDRINUSE"
            /\ u_file' = u_file
            /\ u_stale'
       /\ (u_stale /\ ~u_stale') =>
            (~u_file'.exists /\ u_rm' = u_rm /\ u_pc' = u_pc)]_vars

C22_Witness ==
    /\ u_stale
    /\ u_pc = "failed"
    /\ u_last = "EADDRINUSE"
    /\ u_gen = 2
    /\ u_file.exists
    /\ u_file.gen = 1
====
